---- MODULE Spec2Model ----
(***************************************************************************)
(* Model of the trade-secrets operator: the duration parser of             *)
(* src/duration.rs, the CRD preflight check of src/crd.rs and the          *)
(* reconcile pass, error policy and controller loop of src/controller.rs.  *)
(***************************************************************************)
EXTENDS Integers, Sequences, FiniteSets, TLC

\* ------------------------------------------------------------------ bounds
\* longest mapping list of a TradeSecret (PatchStrategy::Copy { items })
MaxItems == 2
\* secret values are the byte strings 1..MaxVal
MaxVal == 2
\* longest version list of the CustomResourceDefinition
MaxVersions == 2
\* longest command-line duration string
MaxLen == 3

\* ------------------------------------------------------------ secret store
\* the keys a secret's data may hold
Keys == {"a", "b"}
Vals == 1 .. MaxVal
\* Option::None of a lookup
Absent == 0
\* the secrets of the TradeSecret's namespace
SecretNames == {"s", "d"}

EmptyData == [k \in Keys |-> Absent]
\* a BTreeMap<String, ByteString>: the keys mapped to Absent are not in it
DataMaps == [Keys -> Vals \cup {Absent}]
\* a Secret that does not exist in the namespace
NoSecret == [exists |-> FALSE, has_data |-> FALSE, data |-> EmptyData]
\* a Secret whose data field is None
NoDataSecret == [exists |-> TRUE, has_data |-> FALSE, data |-> EmptyData]
SecretStates ==
    {NoSecret, NoDataSecret}
        \cup {[exists |-> TRUE, has_data |-> TRUE, data |-> d] : d \in DataMaps}

\* --------------------------------------------------------------- the rule
\* PatchCopyItem { source, destination }
Items == [source : Keys, destination : Keys]
ItemLists == UNION {[1 .. n -> Items] : n \in 0 .. MaxItems}
\* TradeSecretSpec { source, destination, strategy: Copy { items } }
TradeSecrets == [source : {"s"}, destination : SecretNames, items : ItemLists]

\* ---------------------------------------------------------- ReconcilerError
SecretNotFound == "SecretNotFound"
SourceFieldMissing == "SourceFieldMissing"
Unknown == "Unknown"
ReconcilerError == {SecretNotFound, SourceFieldMissing, Unknown}

\* ------------------------------------------------------------- duration.rs
\* the characters of the short command-line duration strings; "u0663" stands
\* for the non-ASCII decimal digit U+0663, which the regex class \d matches
Chars == {"0", "3", "5", "s", "m", "h", "x", " ", "u0663"}
DigitChars == <<"0", "1", "2", "3", "4", "5", "6", "7", "8", "9">>
AsciiDigits == {DigitChars[i] : i \in 1 .. 10}
\* the regex class \d (Unicode decimal digits)
ReDigits == AsciiDigits \cup {"u0663"}
\* the regex class [smh]
ReUnits == {"s", "m", "h"}
WhiteSpace == {" "}

\* the string of the characters of a decimal numeral followed by a suffix
Numeral(digits, suffix) == [i \in 1 .. Len(digits) |-> DigitChars[digits[i] + 1]] \o suffix

\* digit runs at the edge of u64: 5 behind twenty zeros, 3 before nineteen
\* zeros (above u64::MAX), the latter in minutes, u64::MAX and its successor,
\* 3 before eighteen zeros, and the largest numbers of minutes and of hours
\* whose seconds fit u64 with their successors
LongDurationStrings ==
    {[i \in 1 .. 21 |-> IF i = 21 THEN "5" ELSE "0"],
     [i \in 1 .. 20 |-> IF i = 1 THEN "3" ELSE "0"],
     [i \in 1 .. 21 |-> IF i = 1 THEN "3" ELSE IF i = 21 THEN "m" ELSE "0"],
     Numeral(<<1, 8, 4, 4, 6, 7, 4, 4, 0, 7, 3, 7, 0, 9, 5, 5, 1, 6, 1, 5>>, <<>>),
     Numeral(<<1, 8, 4, 4, 6, 7, 4, 4, 0, 7, 3, 7, 0, 9, 5, 5, 1, 6, 1, 6>>, <<>>),
     Numeral(<<1, 8, 4, 4, 6, 7, 4, 4, 0, 7, 3, 7, 0, 9, 5, 5, 1, 6, 1, 5>>, <<"h">>),
     [i \in 1 .. 19 |-> IF i = 1 THEN "3" ELSE "0"],
     [i \in 1 .. 20 |-> IF i = 1 THEN "3" ELSE IF i = 20 THEN "m" ELSE "0"],
     Numeral(<<3, 0, 7, 4, 4, 5, 7, 3, 4, 5, 6, 1, 8, 2, 5, 8, 6, 0>>, <<"m">>),
     Numeral(<<3, 0, 7, 4, 4, 5, 7, 3, 4, 5, 6, 1, 8, 2, 5, 8, 6, 1>>, <<"m">>),
     Numeral(<<5, 1, 2, 4, 0, 9, 5, 5, 7, 6, 0, 3, 0, 4, 3, 1>>, <<"h">>),
     Numeral(<<5, 1, 2, 4, 0, 9, 5, 5, 7, 6, 0, 3, 0, 4, 3, 2>>, <<"h">>)}
DurationStrings == UNION {[1 .. n -> Chars] : n \in 0 .. MaxLen} \cup LongDurationStrings

RECURSIVE TrimStart(_)
TrimStart(str) ==
    IF Len(str) > 0 /\ Head(str) \in WhiteSpace THEN TrimStart(Tail(str)) ELSE str

RECURSIVE TrimEnd(_)
TrimEnd(str) ==
    IF Len(str) > 0 /\ str[Len(str)] \in WhiteSpace
    THEN TrimEnd(SubSeq(str, 1, Len(str) - 1))
    ELSE str

\* str::trim
Trim(str) == TrimEnd(TrimStart(str))

\* DURATION_RE.captures: ^(?P<value>\d+)(?P<unit>[smh])?$
\* unit is <<>> when the optional group did not take part in the match
Captures(str) ==
    LET n == Len(str)
        has_unit == n > 0 /\ str[n] \in ReUnits
        value == IF has_unit THEN SubSeq(str, 1, n - 1) ELSE str
    IN  IF Len(value) > 0 /\ \A i \in 1 .. Len(value) : value[i] \in ReDigits
        THEN [matched |-> TRUE, value |-> value,
              unit |-> IF has_unit THEN <<str[n]>> ELSE <<>>]
        ELSE [matched |-> FALSE, value |-> <<>>, unit |-> <<>>]

\* a multiplier table that takes minutes for seconds
MultiplierMinutesAsSeconds(unit) ==
    LET u == IF unit = <<>> THEN "s" ELSE unit[1]
    IN  CASE u = "s" -> 1
          [] u = "m" -> 1
          [] u = "h" -> 3600

\* match captures.name("unit").map(|c| c.as_str()).unwrap_or("s")
Multiplier(unit) ==
    LET u == IF unit = <<>> THEN "s" ELSE unit[1]
    IN  CASE u = "s" -> 1
          [] u = "m" -> 60
          [] u = "h" -> 3600

DigitValue(c) == (CHOOSE i \in 1 .. 10 : DigitChars[i] = c) - 1

\* A u64 is written as the sequence of its decimal digits, the most
\* significant first and without leading zeros (zero is <<0>>): the numbers
\* at the edge of 64 bits are beyond the model checker's integers.

\* the decimal digits of u64::MAX, 18446744073709551615, and of 2^64
U64MaxDigits == <<1, 8, 4, 4, 6, 7, 4, 4, 0, 7, 3, 7, 0, 9, 5, 5, 1, 6, 1, 5>>
TwoPow64Digits == <<1, 8, 4, 4, 6, 7, 4, 4, 0, 7, 3, 7, 0, 9, 5, 5, 1, 6, 1, 6>>

RECURSIVE StripZeros(_)
StripZeros(ds) ==
    IF Len(ds) > 1 /\ Head(ds) = 0 THEN StripZeros(Tail(ds)) ELSE ds

RECURSIVE DigitsLess(_, _)
\* ds < es for digit sequences of one length
DigitsLess(ds, es) ==
    IF ds = <<>> THEN FALSE
    ELSE IF Head(ds) # Head(es) THEN Head(ds) < Head(es)
    ELSE DigitsLess(Tail(ds), Tail(es))

\* ds > es for two numbers
Exceeds(ds, es) ==
    \/ Len(ds) > Len(es)
    \/ Len(ds) = Len(es) /\ DigitsLess(es, ds)

\* whether the number written by the ASCII digits exceeds u64::MAX
ExceedsU64(digits) ==
    Exceeds(StripZeros([i \in 1 .. Len(digits) |-> DigitValue(digits[i])]), U64MaxDigits)

\* the digits of a natural number below 10^9
DigitsOf(n) ==
    LET width == CHOOSE w \in 1 .. 9 :
                    /\ n < 10 ^ w
                    /\ w > 1 => n >= 10 ^ (w - 1)
    IN  [i \in 1 .. width |-> (n \div 10 ^ (width - i)) % 10]

\* the number below 10^9 that at most nine digits write
ValueOf(ds) ==
    LET place[i \in 0 .. Len(ds)] ==
            IF i = 0 THEN 0 ELSE 10 * place[i - 1] + ds[i]
    IN  place[Len(ds)]

\* the last width digits of a natural number, with leading zeros
LastDigits(n, width) == [i \in 1 .. width |-> (n \div 10 ^ (width - i)) % 10]

RECURSIVE MulCarry(_, _, _)
\* the digits of ds * m + carry for m <= 3600, five digits at a time from the
\* right
MulCarry(ds, m, carry) ==
    IF ds = <<>> THEN DigitsOf(carry)
    ELSE LET n == Len(ds)
             width == IF n >= 5 THEN 5 ELSE n
             t == ValueOf(SubSeq(ds, n - width + 1, n)) * m + carry
         IN  MulCarry(SubSeq(ds, 1, n - width), m, t \div 10 ^ width)
                \o LastDigits(t % 10 ^ width, width)

\* the exact product of a number and a multiplier of at most 3600
MulDigits(ds, m) == StripZeros(MulCarry(ds, m, 0))

RECURSIVE SubBorrow(_, _, _)
\* the digits of ds - es - borrow for ds >= es + borrow, five digits at a
\* time from the right
SubBorrow(ds, es, borrow) ==
    IF ds = <<>> THEN <<>>
    ELSE LET n == Len(ds)
             l == Len(es)
             width == IF n >= 5 THEN 5 ELSE n
             taken == IF l >= width THEN width ELSE l
             t == ValueOf(SubSeq(ds, n - width + 1, n))
                    - ValueOf(SubSeq(es, l - taken + 1, l)) - borrow
         IN  SubBorrow(SubSeq(ds, 1, n - width), SubSeq(es, 1, l - taken),
                       IF t < 0 THEN 1 ELSE 0)
                \o LastDigits(IF t < 0 THEN t + 10 ^ width ELSE t, width)

\* ds - es for two numbers with ds >= es
SubDigits(ds, es) == StripZeros(SubBorrow(ds, es, 0))

\* u64 multiplication without overflow checks: the product modulo 2^64
WrappingMul(ds, m) ==
    LET product == MulDigits(ds, m)
    IN  IF ~Exceeds(product, U64MaxDigits) THEN product
        ELSE LET wraps == CHOOSE q \in 1 .. m :
                            /\ ~Exceeds(MulDigits(TwoPow64Digits, q), product)
                            /\ Exceeds(MulDigits(TwoPow64Digits, q + 1), product)
             IN  SubDigits(product, MulDigits(TwoPow64Digits, wraps))

\* str::parse::<u64>: only ASCII digits, no overflow
ParseU64(digits) ==
    IF \E i \in 1 .. Len(digits) : digits[i] \notin AsciiDigits
    THEN [ok |-> FALSE, value |-> <<0>>]
    ELSE IF ExceedsU64(digits) THEN [ok |-> FALSE, value |-> <<0>>]
    ELSE [ok |-> TRUE,
          value |-> StripZeros([i \in 1 .. Len(digits) |-> DigitValue(digits[i])])]

\* <Duration as FromStr>::from_str: Ok(seconds), Err, or the panic of
\* value * multiplier in a build with overflow checks (a debug build); a
\* build without them (a release build) wraps
FromStr(str, overflow_checks) ==
    LET captures == Captures(Trim(str)) IN
    IF ~captures.matched THEN [ok |-> FALSE, panicked |-> FALSE, secs |-> <<0>>]
    ELSE LET multiplier == Multiplier(captures.unit)
             value == ParseU64(captures.value)
         IN  IF ~value.ok THEN [ok |-> FALSE, panicked |-> FALSE, secs |-> <<0>>]
             ELSE IF overflow_checks
                     /\ Exceeds(MulDigits(value.value, multiplier), U64MaxDigits)
             THEN [ok |-> FALSE, panicked |-> TRUE, secs |-> <<0>>]
             ELSE [ok |-> TRUE, panicked |-> FALSE,
                   secs |-> WrappingMul(value.value, multiplier)]

\* ------------------------------------------------------------------ crd.rs
CRD_VERSION == "v1alpha1"
VersionNames == {CRD_VERSION, "v1"}
\* what crds.get(CRD_NAME) meets: no definition, or one whose spec.versions
\* is None (has_versions = FALSE) or a list of version names
NoCrd == [found |-> FALSE, has_versions |-> FALSE, versions |-> <<>>]
CrdStates ==
    {NoCrd, [found |-> TRUE, has_versions |-> FALSE, versions |-> <<>>]}
        \cup {[found |-> TRUE, has_versions |-> TRUE, versions |-> v] :
                v \in UNION {[1 .. n -> VersionNames] : n \in 0 .. MaxVersions}}

\* check_crd_status without the versions.len() != 1 check: the first version
\* decides
check_crd_status_first_version(ts_crd) ==
    IF ~ts_crd.found THEN "Could not find the crd"
    ELSE IF ~ts_crd.has_versions THEN "The CRD is missing the version field."
    ELSE IF Len(ts_crd.versions) = 0 THEN "Only expected one version in the CRD."
    ELSE IF ts_crd.versions[1] # CRD_VERSION THEN "CRD is not the expected version"
    ELSE "Ok"

\* check_crd_status: "Ok" or the message of the error it returns
check_crd_status(ts_crd) ==
    IF ~ts_crd.found THEN "Could not find the crd"
    ELSE IF ~ts_crd.has_versions THEN "The CRD is missing the version field."
    ELSE IF Len(ts_crd.versions) # 1 THEN "Only expected one version in the CRD."
    ELSE IF ts_crd.versions[1] # CRD_VERSION THEN "CRD is not the expected version"
    ELSE "Ok"

\* ----------------------------------------------------------- controller.rs
\* Option<Duration>: <<>> is None, <<d>> is Some(d)
None == <<>>
Some(d) == <<d>>

\* a requeue action that asks for an immediate retry
requeue_action_immediate(requeue) == [requeue_after |-> Some(<<0>>)]

\* Ctx::requeue_action
requeue_action(requeue) == [requeue_after |-> Some(requeue)]

\* an error policy that gives up on the object: no requeue
error_policy_no_requeue(error, requeue) == [requeue_after |-> None]

\* error_policy: whatever the error, requeue
error_policy(error, requeue) == requeue_action(requeue)

\* what reconcile returns: Ok(ReconcilerAction) or Err(ReconcilerError)
Ok(action) == [kind |-> "Ok", requeue_after |-> action.requeue_after]
Err(error) == [kind |-> error, requeue_after |-> None]
NoResult == [kind |-> "none", requeue_after |-> None]

\* .map_err(|_| ReconcilerError::SecretNotFound) of the two secrets.get calls
SourceGetError == SecretNotFound
\* a destination fetch that reports its failure as the catch-all error
DestGetErrorUnknown == Unknown
DestGetError == SecretNotFound
\* .map_err(|e| ... ReconcilerError::Unknown) of secrets.patch
PatchError == Unknown

\* secret.data.as_ref().and_then(|data| data.get(key))
DataGet(secret, key) == IF secret.has_data THEN secret.data[key] ELSE Absent

\* source_values that leaves a missing source key out instead of failing
SourceValuesSkipMissing(items, secret) ==
    [ok |-> TRUE,
     values |-> [k \in Keys |->
                    IF \E i \in 1 .. Len(items) : items[i].source = k
                    THEN DataGet(secret, k)
                    ELSE Absent]]

\* source_values that looks for a missing source key in the first item only
SourceValuesFirstOnly(items, secret) ==
    IF items # <<>> /\ DataGet(secret, items[1].source) = Absent
    THEN [ok |-> FALSE, values |-> EmptyData]
    ELSE [ok |-> TRUE,
          values |-> [k \in Keys |->
                        IF \E i \in 1 .. Len(items) : items[i].source = k
                        THEN DataGet(secret, k)
                        ELSE Absent]]

\* source_values: Err(SourceFieldMissing) when an item's source key is not in
\* the source secret, else the map from the items' source keys to their values
SourceValues(items, secret) ==
    IF \E i \in 1 .. Len(items) : DataGet(secret, items[i].source) = Absent
    THEN [ok |-> FALSE, values |-> EmptyData]
    ELSE [ok |-> TRUE,
          values |-> [k \in Keys |->
                        IF \E i \in 1 .. Len(items) : items[i].source = k
                        THEN DataGet(secret, k)
                        ELSE Absent]]

\* dest_values: the map from the items' destination keys to Some(value) or None
DestValues(items, secret) ==
    [k \in Keys |->
        IF \E i \in 1 .. Len(items) : items[i].destination = k
        THEN DataGet(secret, k)
        ELSE Absent]

\* the filter of updates that lets every mapping through
NeedsUpdateAlways(source_value, dest_value) == TRUE

\* the filter of updates without the dest_value.is_none() case
NeedsUpdateSkipAbsent(source_value, dest_value) ==
    dest_value # Absent /\ source_value # dest_value

\* the filter of updates: dest_value.is_none() || *source_value != *dest_value
NeedsUpdate(source_value, dest_value) ==
    dest_value = Absent \/ source_value # dest_value

RECURSIVE UpdatesOf(_, _, _, _)
\* updates after the first n items: collect() inserts the pairs in item order,
\* a later pair replacing an earlier one with the same destination key
UpdatesOf(items, source_values, dest_values, n) ==
    IF n = 0 THEN EmptyData
    ELSE LET before == UpdatesOf(items, source_values, dest_values, n - 1)
             item == items[n]
             source_value == source_values[item.source]
             dest_value == dest_values[item.destination]
         IN  IF NeedsUpdate(source_value, dest_value)
             THEN [before EXCEPT ![item.destination] = source_value]
             ELSE before

\* updates in which the first pair of a destination key is kept
UpdatesFirstWins(items, source_values, dest_values) ==
    [k \in Keys |->
        LET differing == {i \in 1 .. Len(items) :
                            /\ items[i].destination = k
                            /\ NeedsUpdate(source_values[items[i].source], dest_values[k])}
        IN  IF differing = {} THEN Absent
            ELSE source_values[items[CHOOSE i \in differing :
                                        \A j \in differing : i <= j].source]]

Updates(items, source_values, dest_values) ==
    UpdatesOf(items, source_values, dest_values, Len(items))

\* a patch call that names the source secret
PatchTargetSource(trade) == trade.source

\* the secret that secrets.patch is called on
PatchTarget(trade) == trade.destination

\* a store that replaces the secret's data by the patch's
MergePatchReplace(secret, updates) ==
    [exists |-> TRUE, has_data |-> TRUE, data |-> updates]

\* the store's strategic merge of {"data": updates} into a secret
MergePatch(secret, updates) ==
    [exists |-> TRUE, has_data |-> TRUE,
     data |-> [k \in Keys |-> IF updates[k] # Absent THEN updates[k] ELSE secret.data[k]]]

\* ------------------------------------------------------------------- state
VARIABLES
    phase,          \* where main is: "args", "preflight", "running", "exit"
    arg,            \* the --requeue-time string (TS_REQUEUE_TIME)
    parsed,         \* what Duration::from_str made of arg
    crd,            \* the CustomResourceDefinition in the cluster
    preflight,      \* what check_crd_status returned, "none" before it ran
    trade,          \* the TradeSecret the controller watches
    store,          \* the secrets of the namespace
    event,          \* a watch event for the TradeSecret waits to be handled
    timers,         \* the requeue delays that are scheduled and have not elapsed
    pc,             \* where the reconcile pass is: "idle", "get_source", "get_dest", "patch", "returned"
    source_secret,  \* the source secret the pass fetched
    updates,        \* the update set of the pass
    patch_calls,    \* the secrets.patch calls of the pass, by target
    result,         \* what the pass returned
    failed_at,      \* the step at which the pass failed
    requests,       \* the requeue the controller scheduled for the finished pass
    fetch_errs      \* the last error of a failed fetch, by the role of the secret

vars ==
    <<phase, arg, parsed, crd, preflight, trade, store, event, timers, pc,
      source_secret, updates, patch_calls, result, failed_at, requests, fetch_errs>>

pass_vars == <<pc, source_secret, updates, patch_calls, result, failed_at>>
main_vars == <<phase, arg, parsed, crd, preflight, trade>>

NotParsed == [done |-> FALSE, ok |-> FALSE, panicked |-> FALSE, secs |-> <<0>>]
Parsed(str, overflow_checks) ==
    LET from_str == FromStr(str, overflow_checks)
    IN  [done |-> TRUE, ok |-> from_str.ok, panicked |-> from_str.panicked,
         secs |-> from_str.secs]

\* Ctx.requeue_time: the parsed --requeue-time, in seconds
requeue_time == parsed.secs

\* structopt's default_value = "5m" of --requeue-time
DefaultRequeueArg == <<"5", "m">>
\* the --requeue-time strings of the runs in a quiet cluster
RequeueArgs == {DefaultRequeueArg, <<"3", "0">>}

Roles == {"source", "destination"}

\* the state of a process that is not in a pass
IdlePass ==
    /\ pc = "idle"
    /\ source_secret = NoSecret
    /\ updates = EmptyData
    /\ patch_calls = <<>>
    /\ result = NoResult
    /\ failed_at = "none"

\* the secrets the TradeSecret names; the others are left out of the store
Named(t) == {t.source, t.destination}
Stores(t) ==
    {st \in [SecretNames -> SecretStates] :
        \A n \in SecretNames \ Named(t) : st[n] = NoSecret}

\* the mapping lists of the runs with other clients writing: one mapping, two
\* mappings onto one destination key, two mappings onto two
WatchedItems ==
    {<<[source |-> "a", destination |-> "a"]>>,
     <<[source |-> "a", destination |-> "a"], [source |-> "b", destination |-> "a"]>>,
     <<[source |-> "a", destination |-> "a"], [source |-> "b", destination |-> "b"]>>}
WatchedTrades == {t \in TradeSecrets : t.items \in WatchedItems}

\* the CustomResourceDefinition as `trade-secrets crd export` writes it
InstalledCrd == [found |-> TRUE, has_versions |-> TRUE, versions |-> <<CRD_VERSION>>]

\* run_command after structopt parsed the arguments and the client exists
Init ==
    /\ phase = "preflight"
    /\ arg = DefaultRequeueArg
    /\ parsed \in {Parsed(arg, overflow_checks) : overflow_checks \in BOOLEAN}
    /\ crd \in CrdStates
    /\ preflight = "none"
    /\ trade \in WatchedTrades
    /\ store \in Stores(trade)
    /\ event = FALSE
    /\ timers = {}
    /\ IdlePass
    /\ requests = None
    /\ fetch_errs = [r \in Roles |-> "none"]

\* the same, in a cluster that has the CRD installed, for any TradeSecret
InitQuiet ==
    /\ phase = "preflight"
    /\ arg \in RequeueArgs
    /\ parsed \in {Parsed(arg, overflow_checks) : overflow_checks \in BOOLEAN}
    /\ crd = InstalledCrd
    /\ preflight = "none"
    /\ trade \in TradeSecrets
    /\ store \in Stores(trade)
    /\ event = FALSE
    /\ timers = {}
    /\ IdlePass
    /\ requests = None
    /\ fetch_errs = [r \in Roles |-> "none"]

\* main before structopt parsed --requeue-time
InitDuration ==
    /\ phase = "args"
    /\ arg \in DurationStrings
    /\ parsed = NotParsed
    /\ crd = NoCrd
    /\ preflight = "none"
    /\ trade = [source |-> "s", destination |-> "d", items |-> <<>>]
    /\ store = [n \in SecretNames |-> NoSecret]
    /\ event = FALSE
    /\ timers = {}
    /\ IdlePass
    /\ requests = None
    /\ fetch_errs = [r \in Roles |-> "none"]

\* structopt's call of Duration::from_str on the --requeue-time string, in a
\* build with or without overflow checks; an error and a panic end the run
ParseDuration ==
    /\ phase = "args"
    /\ \E overflow_checks \in BOOLEAN : parsed' = Parsed(arg, overflow_checks)
    /\ phase' = IF parsed'.ok THEN "preflight" ELSE "exit"
    /\ UNCHANGED <<arg, crd, preflight, trade, store, event, timers, pass_vars,
                   requests, fetch_errs>>

\* run_controller without the ? on check_crd_status(client).await
CheckCrdStatusUnchecked ==
    /\ phase = "preflight"
    /\ preflight' = check_crd_status(crd)
    /\ phase' = "running"
    /\ event' = TRUE
    /\ UNCHANGED <<arg, parsed, crd, trade, store, timers, pass_vars, requests,
                   fetch_errs>>

\* run_controller: check_crd_status(client).await?, then controller(...)
\* whose Controller lists the TradeSecrets and queues each one
CheckCrdStatus ==
    /\ phase = "preflight"
    /\ preflight' = check_crd_status(crd)
    /\ phase' = IF preflight' = "Ok" THEN "running" ELSE "exit"
    /\ event' = (preflight' = "Ok")
    /\ UNCHANGED <<arg, parsed, crd, trade, store, timers, pass_vars, requests,
                   fetch_errs>>

\* the watch stream reports the TradeSecret (added or updated, spec unchanged)
WatchEvent ==
    /\ phase = "running"
    /\ ~event
    /\ event' = TRUE
    /\ UNCHANGED <<main_vars, store, timers, pass_vars, requests, fetch_errs>>

\* the controller calls reconcile(trade, ctx)
StartPass ==
    /\ pc' = "get_source"
    /\ source_secret' = NoSecret
    /\ updates' = EmptyData
    /\ patch_calls' = <<>>
    /\ result' = NoResult
    /\ failed_at' = "none"
    /\ requests' = None

\* Controller::run takes the queued TradeSecret when no pass of it is running
\* (the model runs the passes of the TradeSecret one after another)
ReconcileOnEvent ==
    /\ phase = "running"
    /\ pc = "idle"
    /\ event
    /\ event' = FALSE
    /\ StartPass
    /\ UNCHANGED <<main_vars, store, timers, fetch_errs>>

\* Controller::run takes the TradeSecret when a scheduled requeue has elapsed
ReconcileOnTimer ==
    /\ phase = "running"
    /\ pc = "idle"
    /\ \E d \in timers : timers' = timers \ {d}
    /\ StartPass
    /\ UNCHANGED <<main_vars, store, event, fetch_errs>>

\* the pass returns Err(error) from a step: "get_source", "get_dest", "diff"
\* (the computation of source_values) or "patch"
Fail(step, error) ==
    /\ result' = Err(error)
    /\ failed_at' = step
    /\ pc' = "returned"
    /\ source_secret' = NoSecret
    /\ updates' = EmptyData

\* the pass returns Ok(ctx.get_ref().requeue_action())
Succeed ==
    /\ result' = Ok(requeue_action(requeue_time))
    /\ failed_at' = "none"
    /\ pc' = "returned"
    /\ source_secret' = NoSecret
    /\ updates' = EmptyData

\* secrets.get(&trade.spec.source).await.map_err(..)?
GetSource ==
    /\ pc = "get_source"
    /\ \E found \in BOOLEAN :
        /\ found => store[trade.source].exists
        /\ IF found
           THEN /\ source_secret' = store[trade.source]
                /\ pc' = "get_dest"
                /\ UNCHANGED <<updates, result, failed_at, fetch_errs>>
           ELSE /\ Fail("get_source", SourceGetError)
                /\ fetch_errs' = [fetch_errs EXCEPT !["source"] = SourceGetError]
    /\ UNCHANGED <<main_vars, store, event, timers, patch_calls, requests>>

\* secrets.get(&trade.spec.destination).await.map_err(..)?, then the
\* computation of source_values, dest_values and updates up to secrets.patch
GetDest ==
    /\ pc = "get_dest"
    /\ \E found \in BOOLEAN :
        /\ found => store[trade.destination].exists
        /\ IF ~found
           THEN /\ Fail("get_dest", DestGetError)
                /\ fetch_errs' = [fetch_errs EXCEPT !["destination"] = DestGetError]
           ELSE LET dest_secret == store[trade.destination]
                    source_values == SourceValues(trade.items, source_secret)
                    dest_values == DestValues(trade.items, dest_secret)
                    upd == Updates(trade.items, source_values.values, dest_values)
                IN  /\ IF ~source_values.ok THEN Fail("diff", SourceFieldMissing)
                       ELSE IF upd = EmptyData THEN Succeed
                       ELSE /\ updates' = upd
                            /\ pc' = "patch"
                            /\ UNCHANGED <<source_secret, result, failed_at>>
                    /\ UNCHANGED fetch_errs
    /\ UNCHANGED <<main_vars, store, event, timers, patch_calls, requests>>

\* secrets.patch(&trade.spec.destination, .., patch).await.map_err(..)?
\* the store may have merged the patch although the call returned an error
Patch ==
    /\ pc = "patch"
    /\ patch_calls' = Append(patch_calls, PatchTarget(trade))
    /\ \E ok \in BOOLEAN, applied \in BOOLEAN :
        /\ ok => applied
        /\ applied => store[PatchTarget(trade)].exists
        /\ store' = IF applied
                    THEN [store EXCEPT ![PatchTarget(trade)] = MergePatch(@, updates)]
                    ELSE store
        /\ IF ok THEN Succeed ELSE Fail("patch", PatchError)
    /\ UNCHANGED <<main_vars, event, timers, requests, fetch_errs>>

\* Controller::run with the pass's outcome: the action reconcile returned, or
\* error_policy's for an error, is scheduled
Requeue ==
    /\ pc = "returned"
    /\ LET action == IF result.kind = "Ok"
                     THEN [requeue_after |-> result.requeue_after]
                     ELSE error_policy(result.kind, requeue_time)
       IN  /\ requests' = action.requeue_after
           /\ timers' = timers \cup {action.requeue_after[i] :
                                        i \in 1 .. Len(action.requeue_after)}
    /\ pc' = "idle"
    /\ UNCHANGED <<main_vars, store, event, source_secret, updates, patch_calls,
                   result, failed_at, fetch_errs>>

\* another client of the cluster sets or removes a key of a secret
ExternalWrite ==
    /\ phase = "running"
    /\ \E n \in Named(trade), k \in Keys, v \in Vals \cup {Absent} :
        /\ store[n].exists
        /\ store' = [store EXCEPT ![n] =
                        [exists |-> TRUE, has_data |-> TRUE,
                         data |-> [store[n].data EXCEPT ![k] = v]]]
    /\ UNCHANGED <<main_vars, event, timers, pass_vars, requests, fetch_errs>>

\* another client of the cluster deletes a secret
ExternalDelete ==
    /\ phase = "running"
    /\ \E n \in Named(trade) :
        /\ store[n].exists
        /\ store' = [store EXCEPT ![n] = NoSecret]
    /\ UNCHANGED <<main_vars, event, timers, pass_vars, requests, fetch_errs>>

\* another client of the cluster creates a secret, without data
ExternalCreate ==
    /\ phase = "running"
    /\ \E n \in Named(trade) :
        /\ ~store[n].exists
        /\ store' = [store EXCEPT ![n] = NoDataSecret]
    /\ UNCHANGED <<main_vars, event, timers, pass_vars, requests, fetch_errs>>

Next ==
    \/ CheckCrdStatus
    \/ WatchEvent
    \/ ReconcileOnEvent
    \/ ReconcileOnTimer
    \/ GetSource
    \/ GetDest
    \/ Patch
    \/ Requeue
    \/ ExternalWrite
    \/ ExternalDelete
    \/ ExternalCreate

Spec == Init /\ [][Next]_vars

\* the controller in a cluster where no other client writes to the secrets
NextQuiet ==
    \/ CheckCrdStatus
    \/ ReconcileOnEvent
    \/ ReconcileOnTimer
    \/ GetSource
    \/ GetDest
    \/ Patch
    \/ Requeue

SpecQuiet == InitQuiet /\ [][NextQuiet]_vars

NextDuration == ParseDuration

SpecDuration == InitDuration /\ [][NextDuration]_vars

\* ================================================================== claims

\* the reconcile pass took the step that follows the fetch of the source
\* secret, and the fetch of the destination secret did not fail
DestFetched == pc = "get_dest" /\ pc' # "get_dest" /\ failed_at' # "get_dest"

\* the data of a fetched secret as a set of (key, value) pairs
PairsOf(data) == {<<k, data[k]>> : k \in {x \in Keys : data[x] # Absent}}
DataOf(secret) == IF secret.has_data THEN PairsOf(secret.data) ELSE {}
HasKey(secret, k) == \E p \in DataOf(secret) : p[1] = k
ValueAt(secret, k) == (CHOOSE p \in DataOf(secret) : p[1] = k)[2]

\* some mapping's source key is not in the source secret's data
SomeSourceKeyMissing(items, source) ==
    \E i \in 1 .. Len(items) : ~HasKey(source, items[i].source)

\* C1: if a mapping's source key is absent from the source secret's data (the
\* secret may have no data at all), the pass fails with SourceFieldMissing,
\* issues no patch call and leaves the store as it was
C1_MissingSourceFieldFails ==
    [][(DestFetched /\ SomeSourceKeyMissing(trade.items, source_secret))
        => /\ pc' = "returned"
           /\ result' = Err(SourceFieldMissing)
           /\ patch_calls' = <<>>
           /\ store' = store]_vars

\* a pass failed with SourceFieldMissing on a list of two mappings, one whose
\* source key is missing and one that would have updated the destination
C1_Witness ==
    /\ pc = "returned"
    /\ result = Err(SourceFieldMissing)
    /\ patch_calls = <<>>
    /\ trade.destination = "d"
    /\ store["d"].exists
    /\ \E i, j \in 1 .. Len(trade.items) :
        /\ ~HasKey(store["s"], trade.items[i].source)
        /\ HasKey(store["s"], trade.items[j].source)
        /\ ~HasKey(store["d"], trade.items[j].destination)

\* every mapping's destination key holds the value of its source key
AllInSync(items, source, dest) ==
    \A i \in 1 .. Len(items) :
        /\ HasKey(source, items[i].source)
        /\ HasKey(dest, items[i].destination)
        /\ ValueAt(dest, items[i].destination) = ValueAt(source, items[i].source)

\* C2: if every mapping's source key exists and every destination key holds
\* the source value, the update set is empty, no patch call is issued and the
\* pass returns Ok with the requeue delay
C2_InSyncNoPatch ==
    [][(DestFetched /\ AllInSync(trade.items, source_secret, store[trade.destination]))
        => /\ Updates(trade.items,
                      SourceValues(trade.items, source_secret).values,
                      DestValues(trade.items, store[trade.destination])) = EmptyData
           /\ pc' = "returned"
           /\ result' = [kind |-> "Ok", requeue_after |-> <<requeue_time>>]
           /\ patch_calls' = <<>>
           /\ store' = store]_vars

\* a pass over two mappings that were all in sync returned Ok without a patch
C2_Witness ==
    /\ pc = "returned"
    /\ result.kind = "Ok"
    /\ patch_calls = <<>>
    /\ Len(trade.items) = 2
    /\ trade.items[1] # trade.items[2]
    /\ trade.destination = "d"
    /\ AllInSync(trade.items, store["s"], store["d"])

\* C3: merging the computed update set into the destination data and
\* recomputing the updates against the merged data yields an empty update set,
\* for every mapping list, also one with two mappings onto one destination key
C3_MergeIsFixedPoint ==
    (/\ pc = "get_dest"
     /\ store[trade.destination].exists
     /\ SourceValues(trade.items, source_secret).ok)
    => LET source_values == SourceValues(trade.items, source_secret).values
           dest_secret == store[trade.destination]
           upd == Updates(trade.items, source_values,
                          DestValues(trade.items, dest_secret))
           merged == MergePatch(dest_secret, upd)
       IN  Updates(trade.items, source_values, DestValues(trade.items, merged))
              = EmptyData

\* mapping i finds its destination key absent or holding another value
Differs(items, source, dest, i) ==
    \/ ~HasKey(dest, items[i].destination)
    \/ ValueAt(dest, items[i].destination) # ValueAt(source, items[i].source)

\* the pairs (destinationKey, sourceValue) of the mappings that differ
DifferingPairs(items, source, dest) ==
    {<<items[i].destination, ValueAt(source, items[i].source)>> :
        i \in {j \in 1 .. Len(items) : Differs(items, source, dest, j)}}

\* the same, of each destination key's last mapping that differs
LastDifferingPairs(items, source, dest) ==
    {<<items[i].destination, ValueAt(source, items[i].source)>> :
        i \in {j \in 1 .. Len(items) :
                /\ Differs(items, source, dest, j)
                /\ \A l \in (j + 1) .. Len(items) :
                    ~(/\ items[l].destination = items[j].destination
                      /\ Differs(items, source, dest, l))}}

\* C4 as claimed: when every mapping's source key is present, the update set
\* is exactly the set of the pairs of the mappings that differ
C4_UpdatesAreDifferingPairs ==
    [][(DestFetched /\ ~SomeSourceKeyMissing(trade.items, source_secret))
        => /\ failed_at' = "none"
           /\ PairsOf(updates')
                = DifferingPairs(trade.items, source_secret, store[trade.destination])]_vars

\* C4 as amended: when every mapping's source key is present, the update set
\* is exactly the set of the pairs of the mappings that differ, of which only
\* the last one is kept where several name one destination key; an absent
\* destination key is no error and its key is in the update set; the patch
\* step is reached exactly when the update set is not empty
C4_UpdatesAreLastDifferingPairs ==
    [][(DestFetched /\ ~SomeSourceKeyMissing(trade.items, source_secret))
        => /\ failed_at' = "none"
           /\ PairsOf(updates')
                = LastDifferingPairs(trade.items, source_secret, store[trade.destination])
           /\ \A i \in 1 .. Len(trade.items) :
                ~HasKey(store[trade.destination], trade.items[i].destination)
                    => updates'[trade.items[i].destination] # Absent
           /\ (pc' = "patch") = (updates' # EmptyData)
           /\ (pc' = "returned") = (updates' = EmptyData)]_vars

\* a pass computed an update for a mapping whose destination key was absent
\* and none for a mapping whose destination already held the source value
C4_Witness ==
    /\ pc = "patch"
    /\ trade.destination = "d"
    /\ Len(trade.items) = 2
    /\ ~HasKey(store["d"], trade.items[1].destination)
    /\ updates[trade.items[1].destination] = ValueAt(store["s"], trade.items[1].source)
    /\ HasKey(store["d"], trade.items[2].destination)
    /\ ValueAt(store["d"], trade.items[2].destination)
         = ValueAt(store["s"], trade.items[2].source)
    /\ updates[trade.items[2].destination] = Absent

\* C5: a pass that failed (SecretNotFound, SourceFieldMissing or Unknown) is
\* followed by exactly one scheduled requeue, after the requeue time
C5_FailedPassRequeuedOnce ==
    [][(pc = "returned" /\ result.kind \in ReconcilerError /\ pc' = "idle")
        => /\ requests' = <<requeue_time>>
           /\ timers' = timers \cup {requeue_time}]_vars

\* a pass whose patch call failed was requeued
C5_Witness ==
    /\ pc = "idle"
    /\ result = Err(Unknown)
    /\ failed_at = "patch"
    /\ requests = <<requeue_time>>
    /\ timers = {requeue_time}

\* C6: a pass issues at most one patch call, on the destination secret, and
\* none when it failed at a fetch or at the computation of the updates
C6_AtMostOnePatch ==
    /\ Len(patch_calls) <= 1
    /\ \A i \in 1 .. Len(patch_calls) : patch_calls[i] = trade.destination
    /\ failed_at \in {"get_source", "get_dest", "diff"} => patch_calls = <<>>
    /\ pc \in {"get_source", "get_dest", "patch"} => patch_calls = <<>>

\* a pass patched the destination secret, which is not the source secret
C6_Witness ==
    /\ pc = "returned"
    /\ result.kind = "Ok"
    /\ trade.destination # trade.source
    /\ patch_calls = <<trade.destination>>

\* C7 as claimed: the error of a failed fetch of the source secret differs
\* from the error of a failed fetch of the destination secret
C7_FetchErrorsDistinguishable ==
    (fetch_errs["source"] # "none" /\ fetch_errs["destination"] # "none")
        => fetch_errs["source"] # fetch_errs["destination"]

\* C7 as amended: a failed fetch of the source secret and a failed fetch of
\* the destination secret both fail the pass with SecretNotFound, which names
\* no role, and no patch is issued
C7_FetchFailsSecretNotFound ==
    /\ failed_at \in {"get_source", "get_dest"}
        => result = Err(SecretNotFound) /\ patch_calls = <<>>
    /\ \A r \in Roles : fetch_errs[r] \in {"none", SecretNotFound}

\* a pass failed at the fetch of the destination secret after an earlier one
\* failed at the fetch of the source secret
C7_Witness ==
    /\ pc = "returned"
    /\ failed_at = "get_dest"
    /\ result = Err(SecretNotFound)
    /\ fetch_errs["source"] = SecretNotFound

\* C9: the preflight check succeeds exactly when the definition is found and
\* declares exactly one version, named v1alpha1; the controller runs only then
C9_PreflightExact ==
    preflight # "none"
        => /\ (preflight = "Ok")
                = (/\ crd.found
                   /\ crd.has_versions
                   /\ Len(crd.versions) = 1
                   /\ crd.versions = <<"v1alpha1">>)
           /\ (phase = "running") = (preflight = "Ok")
           /\ (phase = "exit") = (preflight # "Ok")

\* the preflight check rejected a definition of two versions, the first of
\* which is the expected one
C9_Witness ==
    /\ preflight = "Only expected one version in the CRD."
    /\ phase = "exit"
    /\ Len(crd.versions) = 2
    /\ crd.versions[1] = "v1alpha1"

\* a non-empty run of the decimal digits 0-9, optionally followed by s, m or h
PlainDuration(str) ==
    \E n \in 1 .. Len(str) :
        /\ \A i \in 1 .. n : str[i] \in AsciiDigits
        /\ \/ n = Len(str)
           \/ n + 1 = Len(str) /\ str[n + 1] \in {"s", "m", "h"}

RECURSIVE NumberOf(_, _)
\* the number a run of digits writes, read from the left
NumberOf(str, acc) ==
    IF str = <<>> \/ Head(str) \notin AsciiDigits THEN acc
    ELSE NumberOf(Tail(str), 10 * acc + DigitValue(Head(str)))

\* the seconds a plain duration string of at most six characters stands for
ShortDuration(str) == Len(str) <= 6
SecondsOf(str) ==
    LET last == str[Len(str)]
    IN  NumberOf(str, 0)
            * (CASE last = "m" -> 60 [] last = "h" -> 3600 [] OTHER -> 1)

\* the digits of a plain duration string
DigitRun(str) == SelectSeq(str, LAMBDA c : c \in AsciiDigits)

\* the run of digits of a plain duration string writes at most
\* 18446744073709551615
WithinU64(str) == ~ExceedsU64(DigitRun(str))

\* the seconds a plain duration string of any length stands for, as a number
\* written in decimal digits: its value times 1, 60 or 3600
ExactSeconds(str) ==
    LET run == DigitRun(str)
        last == str[Len(str)]
    IN  MulDigits(StripZeros([i \in 1 .. Len(run) |-> DigitValue(run[i])]),
                  CASE last = "m" -> 60 [] last = "h" -> 3600 [] OTHER -> 1)

\* value x multiplier is at most 2^64 - 1
ProductFits(str) == ~Exceeds(ExactSeconds(str), U64MaxDigits)

\* C10 as claimed: the parser accepts exactly the plain duration strings
C10_AcceptsExactlyPlain ==
    parsed.done => (parsed.ok = PlainDuration(arg))

\* C10 as amended: the parser rejects with an error every string that, with
\* leading and trailing whitespace removed, is not a plain duration string
\* whose value fits 64 bits; it accepts every such string whose value x 1,
\* x 60 or x 3600 fits 64 bits and yields that many seconds; "5m" gives 300,
\* "30" gives 30, "5x" is rejected
C10_AcceptsTrimmedPlain ==
    parsed.done
        => /\ ~(PlainDuration(Trim(arg)) /\ WithinU64(Trim(arg)))
                => (~parsed.ok /\ ~parsed.panicked)
           /\ (PlainDuration(Trim(arg)) /\ WithinU64(Trim(arg)) /\ ProductFits(Trim(arg)))
                => /\ parsed.ok
                   /\ parsed.secs = ExactSeconds(Trim(arg))
                   /\ ShortDuration(Trim(arg))
                        => parsed.secs = DigitsOf(SecondsOf(Trim(arg)))
           /\ arg = <<"5", "m">> => parsed.ok /\ parsed.secs = <<3, 0, 0>>
           /\ arg = <<"3", "0">> => parsed.ok /\ parsed.secs = <<3, 0>>
           /\ arg = <<"5", "x">> => ~parsed.ok /\ ~parsed.panicked
           /\ (phase = "preflight") = parsed.ok
           /\ (phase = "exit") = ~parsed.ok

\* the parser accepted "5m" with a space before it
C10_Witness ==
    /\ parsed.done
    /\ arg = <<" ", "5", "m">>
    /\ parsed.ok
    /\ parsed.secs = <<3, 0, 0>>

\* C19: for every string the parser accepts, the seconds it yields are the
\* exact product of the value and the multiplier; the multiplication never
\* wraps around to a smaller number of seconds
C19_ExactProduct ==
    (parsed.done /\ parsed.ok) => parsed.secs = ExactSeconds(Trim(arg))

\* the mappings of a list that name the destination key k
MappingsOnto(items, k) == {i \in 1 .. Len(items) : items[i].destination = k}
Last(indices) == CHOOSE i \in indices : \A j \in indices : j <= i

\* C11: when two or more mappings name one destination key and each of them
\* differs from the destination's value, the update set holds for that key
\* the source value of the last of them in list order
C11_LastMappingWins ==
    [][(DestFetched /\ ~SomeSourceKeyMissing(trade.items, source_secret))
        => \A k \in Keys :
            LET onto == MappingsOnto(trade.items, k)
            IN  (/\ Cardinality(onto) >= 2
                 /\ \A i \in onto :
                        Differs(trade.items, source_secret, store[trade.destination], i))
                => updates'[k] = ValueAt(source_secret, trade.items[Last(onto)].source)]_vars

\* a pass computed the update of a destination key that two mappings with
\* different source values name, both differing: the second one's value
C11_Witness ==
    /\ pc = "patch"
    /\ trade.destination = "d"
    /\ Len(trade.items) = 2
    /\ trade.items[1].destination = trade.items[2].destination
    /\ ~SomeSourceKeyMissing(trade.items, store["s"])
    /\ ValueAt(store["s"], trade.items[1].source) # ValueAt(store["s"], trade.items[2].source)
    /\ \A i \in 1 .. 2 : Differs(trade.items, store["s"], store["d"], i)
    /\ updates[trade.items[2].destination] = ValueAt(store["s"], trade.items[2].source)

\* the reorderings of a list of mappings
PermutationsOf(items) ==
    {[i \in 1 .. Len(items) |-> items[p[i]]] :
        p \in {q \in [1 .. Len(items) -> 1 .. Len(items)] :
                \A i, j \in 1 .. Len(items) : q[i] = q[j] => i = j}}

DistinctDestinations(items) ==
    \A i, j \in 1 .. Len(items) :
        items[i].destination = items[j].destination => i = j

\* what the update computation yields: the failure, or the update set
OutcomeOf(items, source, dest) ==
    LET source_values == SourceValues(items, source)
    IN  IF ~source_values.ok THEN [failed |-> TRUE, updates |-> EmptyData]
        ELSE [failed |-> FALSE,
              updates |-> Updates(items, source_values.values, DestValues(items, dest))]

\* C12: for a mapping list with pairwise distinct destination keys, the pass
\* computes what it would compute for any reordering of the list on the same
\* source and destination data: the same failure, or the same update set
C12_OrderIndependent ==
    [][(DestFetched /\ DistinctDestinations(trade.items))
        => \A items \in PermutationsOf(trade.items) :
            LET outcome == OutcomeOf(items, source_secret, store[trade.destination])
            IN  /\ outcome.failed = (failed_at' = "diff")
                /\ outcome.failed = (result'.kind = SourceFieldMissing)
                /\ outcome.updates = updates']_vars

\* a pass computed updates for two mappings with distinct destination keys,
\* the second of which differs in its value and the first through absence
C12_Witness ==
    /\ pc = "patch"
    /\ trade.destination = "d"
    /\ Len(trade.items) = 2
    /\ DistinctDestinations(trade.items)
    /\ trade.items[1].source # trade.items[2].source
    /\ ~HasKey(store["d"], trade.items[1].destination)
    /\ HasKey(store["d"], trade.items[2].destination)
    /\ \A i \in 1 .. 2 :
        updates[trade.items[i].destination] = ValueAt(store["s"], trade.items[i].source)

\* C13: every pass, whether it patched, found nothing to update or failed, is
\* followed by one requeue after the configured requeue time, whatever came
\* before it
C13_SameDelayInEveryOutcome ==
    [][(pc = "returned" /\ pc' = "idle")
        => /\ result.kind \in ReconcilerError \cup {"Ok"}
           /\ result.kind = "Ok" => result.requeue_after = Some(requeue_time)
           /\ requests' = Some(requeue_time)
           /\ timers' = timers \cup {requeue_time}]_vars

\* a pass that issued a patch and returned Ok was requeued after the
\* requeue time, as the failed pass before it had been
C13_Witness ==
    /\ pc = "idle"
    /\ result.kind = "Ok"
    /\ patch_calls # <<>>
    /\ fetch_errs # [r \in Roles |-> "none"]
    /\ requests = Some(requeue_time)
    /\ timers = {requeue_time}

\* a step of the pass: the call of reconcile, one of its awaits or its return
\* to the controller
PassStep == pc' # pc

\* the destination keys outside the update set keep what they held
KeysOutsideUpdatesKept ==
    \A k \in Keys :
        (pc = "patch" /\ updates[k] # Absent)
        \/ DataGet(store'[trade.destination], k) = DataGet(store[trade.destination], k)

\* C16 as claimed: a step of the pass changes nothing but the destination
\* secret's values at the keys of the update set; the source secret and the
\* TradeSecret are never written
C16_OnlyUpdateKeysWritten ==
    [][PassStep
        => /\ trade' = trade
           /\ store'[trade.source] = store[trade.source]
           /\ \A n \in SecretNames \ {trade.destination} : store'[n] = store[n]
           /\ store'[trade.destination].exists = store[trade.destination].exists
           /\ KeysOutsideUpdatesKept]_vars

\* C16 as amended: a step of the pass changes nothing but the destination
\* secret's values at the keys of the update set; no other secret is written,
\* so the source secret is written only where the TradeSecret names one
\* secret as its source and its destination; the TradeSecret is never written
C16_OnlyDestinationUpdateKeysWritten ==
    [][PassStep
        => /\ trade' = trade
           /\ trade.source # trade.destination
                => store'[trade.source] = store[trade.source]
           /\ \A n \in SecretNames \ {trade.destination} : store'[n] = store[n]
           /\ store'[trade.destination].exists = store[trade.destination].exists
           /\ KeysOutsideUpdatesKept
           /\ store' # store => pc = "patch"]_vars

\* a pass patched one key of the destination secret, which holds another key
\* that no mapping names
C16_Witness ==
    /\ pc = "returned"
    /\ patch_calls = <<"d">>
    /\ trade.source = "s"
    /\ \E k \in Keys :
        /\ HasKey(store["d"], k)
        /\ \A i \in 1 .. Len(trade.items) : trade.items[i].destination # k
        /\ \E i \in 1 .. Len(trade.items) :
            /\ HasKey(store["d"], trade.items[i].destination)
            /\ ValueAt(store["d"], trade.items[i].destination) # ValueAt(store["d"], k)

\* the gate in a state: a pass, a patch, a requeue or a queued TradeSecret
\* only after a preflight check that succeeded, and none after one that failed
PreflightGate ==
    /\ (phase = "preflight") = (preflight = "none")
    /\ (pc # "idle" \/ result # NoResult \/ patch_calls # <<>>
            \/ timers # {} \/ requests # None \/ event)
        => (phase = "running" /\ preflight = "Ok")
    /\ (phase = "running") = (preflight = "Ok")
    /\ (phase = "exit") = (preflight \notin {"none", "Ok"})
    /\ phase = "exit" => IdlePass

\* C17: the preflight check runs once, before the control loop; no pass is
\* started and no secret patched unless it succeeded; its failure ends the run
\* with the error, no pass or patch having happened
C17_PreflightIsStartupGate ==
    [][/\ PreflightGate'
       /\ preflight # "none" => preflight' = preflight
       /\ phase # "running" => (pass_vars' = pass_vars /\ store' = store)
       /\ phase = "exit" => phase' = "exit"]_vars

\* the run ended with the preflight check's error, no pass having run
C17_Witness ==
    /\ phase = "exit"
    /\ preflight = "Only expected one version in the CRD."
    /\ IdlePass
    /\ timers = {}

\* C18: whatever other clients write to the destination secret between the
\* fetches and the patch of a pass, when the pass returns Ok every mapped
\* destination key holds the source value the pass read (stated for mapping
\* lists with pairwise distinct destination keys)
C18_SuccessMeansInSync ==
    [][(/\ pc \in {"get_dest", "patch"}
        /\ pc' = "returned"
        /\ result'.kind = "Ok"
        /\ DistinctDestinations(trade.items))
        => \A i \in 1 .. Len(trade.items) :
            /\ HasKey(store'[trade.destination], trade.items[i].destination)
            /\ ValueAt(store'[trade.destination], trade.items[i].destination)
                = ValueAt(source_secret, trade.items[i].source)]_vars

\* ------------------------------------------------------------- fair runs
\* the runs in which the tokio runtime keeps polling the controller's future:
\* a pass that can take its next step takes it, what reconcile returned is
\* scheduled, and a queued or due TradeSecret is taken up; what other clients
\* and the watch stream do is left open
Fairness ==
    /\ WF_vars(CheckCrdStatus)
    /\ WF_vars(ReconcileOnEvent \/ ReconcileOnTimer)
    /\ WF_vars(GetSource)
    /\ WF_vars(GetDest)
    /\ WF_vars(Patch)
    /\ WF_vars(Requeue)

\* the controller and the watch stream, no other client writing: a secret or
\* a key that is missing stays missing, and a pass may fail every time
NextFair ==
    \/ CheckCrdStatus
    \/ WatchEvent
    \/ ReconcileOnEvent
    \/ ReconcileOnTimer
    \/ GetSource
    \/ GetDest
    \/ Patch
    \/ Requeue

SpecFair == Init /\ [][NextFair]_vars /\ Fairness

\* C14: once the controller runs, a pass of the TradeSecret starts again and
\* again, and every pass that failed is followed by another pass
C14_ReconciledInfinitelyOften ==
    /\ (phase = "running") ~> (pc = "get_source")
    /\ (pc = "returned" /\ result.kind \in ReconcilerError) ~> (pc = "get_source")

\* a pass was started by the requeue of a pass that had failed at a fetch
C14_Witness ==
    /\ pc = "get_source"
    /\ fetch_errs["source"] = SecretNotFound
    /\ ~store[trade.source].exists
    /\ ~event

\* ------------------------------------------------------------- calm runs
\* the three calls of a pass in a cluster whose API server answers: a get
\* fails only for a secret that does not exist, and so does the patch
GetSourceAnswered == GetSource /\ (store[trade.source].exists => pc' = "get_dest")
GetDestAnswered == GetDest /\ (store[trade.destination].exists => failed_at' # "get_dest")
PatchAnswered == Patch /\ (store[PatchTarget(trade)].exists => result'.kind = "Ok")

NextCalm ==
    \/ CheckCrdStatus
    \/ ReconcileOnEvent
    \/ ReconcileOnTimer
    \/ GetSourceAnswered
    \/ GetDestAnswered
    \/ PatchAnswered
    \/ Requeue

\* the quiet cluster with an API server that answers and a runtime that keeps
\* polling the controller
SpecCalm == InitQuiet /\ [][NextCalm]_vars /\ WF_vars(NextCalm)

\* both secrets exist and every mapping's source key is in the source secret
SourceKeysExist ==
    /\ store[trade.source].exists
    /\ store[trade.destination].exists
    /\ ~SomeSourceKeyMissing(trade.items, store[trade.source])

\* every mapped destination key holds its source key's value and no patch is
\* about to be issued
Converged ==
    /\ AllInSync(trade.items, store[trade.source], store[trade.destination])
    /\ pc # "patch"

\* C15: with no other writer and calls that succeed, for a TradeSecret whose
\* source keys all exist the passes reach a state in which every mapped
\* destination key holds its source value, and from then on no pass patches
C15_Converges ==
    [](SourceKeysExist => <>[]Converged)

====
